---- MODULE Spec2Model ----
(***************************************************************************)
(* Model of src/main.py, the Mercado Livre shipping-cost extractor:        *)
(*   normalize_ad_id                      (pure function on strings)       *)
(*   fetch_shipping_cost                  (one HTTP call -> result tuple)  *)
(*   process_ad_ids                       (split, dedup, fan-out, gather,  *)
(*                                         ordered output)                 *)
(* A Python str is a sequence of one-character strings.  An Optional[str]  *)
(* is a record [some, val]; None is [some |-> FALSE, val |-> <<>>].        *)
(***************************************************************************)
EXTENDS Integers, Sequences, FiniteSets, TLC

VARIABLES
    \* --- normalize_ad_id applied to a raw string, then to its own result
    n_pc, n_raw, n_out1, n_out2,
    \* --- one call of fetch_shipping_cost on one response of the server
    f_pc, f_resp, f_out,
    \* --- one run of process_ad_ids
    pc,             \* position in process_ad_ids
    ad_ids,         \* the ad_ids argument (the text of the input box)
    normalized_ids, \* list of (raw_id, normalize_ad_id(raw_id))
    tasks,          \* the coroutines handed to asyncio.gather
    first_done,     \* index of the task the event loop finished first (0: none)
    result_dict,    \* ad_id -> (cost, error)
    k,              \* index of the loop of lines 66-77
    result_text,    \* lines inserted in the result widget
    dialogs         \* message boxes shown

vars == <<n_pc, n_raw, n_out1, n_out2, f_pc, f_resp, f_out, pc, ad_ids,
          normalized_ids, tasks, first_done, result_dict, k, result_text,
          dialogs>>

normVars == <<n_pc, n_raw, n_out1, n_out2>>
fetchVars == <<f_pc, f_resp, f_out>>
batchVars == <<pc, ad_ids, normalized_ids, tasks, first_done, result_dict, k,
               result_text, dialogs>>

-----------------------------------------------------------------------------
(* Bounds of the model.                                                    *)
MaxRawLen == 5      \* longest raw string given to normalize_ad_id alone
MaxOptions == 3     \* longest "options" array of a response body
MaxTokens == 3      \* most comma/newline separated pieces of a batch input

-----------------------------------------------------------------------------
(* Python values.                                                          *)
None == [some |-> FALSE, val |-> <<>>]
Some(s) == [some |-> TRUE, val |-> s]
\* truth value of an Optional[str] in `if norm_id`
Truthy(o) == o.some /\ o.val # <<>>

Digits == {"0", "1", "2", "3", "4", "5", "6", "7", "8", "9"}
\* characters str.strip() removes
Whitespace == {" ", "\t", "\n", "\r"}

Range(s) == {s[i] : i \in 1..Len(s)}

RECURSIVE lstrip(_)
lstrip(s) ==
    IF s # <<>> /\ Head(s) \in Whitespace THEN lstrip(Tail(s)) ELSE s

RECURSIVE rstrip(_)
rstrip(s) ==
    IF s # <<>> /\ s[Len(s)] \in Whitespace
    THEN rstrip(SubSeq(s, 1, Len(s) - 1))
    ELSE s

\* str.strip()
strip(s) == rstrip(lstrip(s))

\* str.startswith(p)
startswith(s, p) == Len(s) >= Len(p) /\ SubSeq(s, 1, Len(p)) = p

MLB == <<"M", "L", "B">>

-----------------------------------------------------------------------------
(* normalize_ad_id, lines 8-13.                                            *)

\* re.sub(r"[^MLB0-9]", "", s): drop every character outside the class
KeptByAdIdClass(c) == c \in {"M", "L", "B"} \cup Digits

\* line 10 with the class of every letter and digit: r"[^A-Za-z0-9]"
KeptByAlnumClass(c) == c \notin Whitespace \cup {",", "-", "."}
sub_not_alnum(s) == SelectSeq(s, KeptByAlnumClass)

\* line 10
sub_not_MLB09(s) == SelectSeq(s, KeptByAdIdClass)

\* lines 11-12, with the prefix prepended whatever the string starts with
ensure_prefix_always(cleaned_id) == MLB \o cleaned_id

\* lines 11-12: if not cleaned_id.startswith("MLB"): cleaned_id = "MLB" + ...
ensure_prefix(cleaned_id) ==
    IF ~startswith(cleaned_id, MLB) THEN MLB \o cleaned_id ELSE cleaned_id

\* re.match(r"^MLB\d+$", s); "$" also matches just before a final newline
match_MLB_digits(s) ==
    LET body == IF s # <<>> /\ s[Len(s)] = "\n"
                THEN SubSeq(s, 1, Len(s) - 1) ELSE s
    IN  /\ startswith(body, MLB)
        /\ Len(body) >= 4
        /\ \A i \in 4..Len(body) : body[i] \in Digits

normalize_ad_id(ad_id) ==
    LET cleaned_id == ensure_prefix(sub_not_MLB09(strip(ad_id)))
    IN  IF match_MLB_digits(cleaned_id) THEN Some(cleaned_id) ELSE None

-----------------------------------------------------------------------------
(* Raw strings given to normalize_ad_id on its own.                        *)
NormAlphabet == {"M", "L", "B", "1", "a", " "}

RECURSIVE StringsUpTo(_, _)
StringsUpTo(A, n) ==
    IF n = 0 THEN {<<>>}
    ELSE LET shorter == StringsUpTo(A, n - 1)
         IN  shorter \cup {Append(s, c) : s \in shorter, c \in A}

RawStrings == StringsUpTo(NormAlphabet, MaxRawLen)

NormIdle ==
    /\ n_pc = "idle" /\ n_raw = <<>> /\ n_out1 = None /\ n_out2 = None

InitNormalize ==
    /\ n_pc = "raw"
    /\ n_raw \in RawStrings
    /\ n_out1 = None
    /\ n_out2 = None

\* normalize_ad_id(raw)
NormalizeOnce ==
    /\ n_pc = "raw"
    /\ n_out1' = normalize_ad_id(n_raw)
    /\ n_pc' = "once"
    /\ UNCHANGED <<n_raw, n_out2>>

\* normalize_ad_id(normalize_ad_id(raw)), when the inner call succeeded
NormalizeAgain ==
    /\ n_pc = "once"
    /\ n_out1.some
    /\ n_out2' = normalize_ad_id(n_out1.val)
    /\ n_pc' = "twice"
    /\ UNCHANGED <<n_raw, n_out1>>

-----------------------------------------------------------------------------
(* fetch_shipping_cost, lines 20-48.                                       *)
(* A response of the server, as the try block of lines 25-31 sees it:      *)
(*   transport  "ok", or the exception session.get / the body read raises  *)
(*   status     the HTTP status                                            *)
(*   ctype_json whether Content-Type is application/json                   *)
(*   json_ok    whether the body is well-formed JSON                       *)
(*   has_options, options   the "options" key and the list_cost of each    *)
(*              element of the array                                       *)
(* A list_cost is a JSON number, a JSON string, null, or absent.           *)

Num(n) == [t |-> "num", n |-> n, s |-> <<>>]
Str(s) == [t |-> "str", n |-> 0, s |-> s]
Null == [t |-> "null", n |-> 0, s |-> <<>>]
Absent == [t |-> "absent", n |-> 0, s |-> <<>>]

ListCosts == {Num(15), Num(7), Str(<<"1", "5">>), Str(<<" ", "7">>),
              Str(<<"a">>), Null, Absent}

Statuses == {200, 201, 304, 400, 404, 429, 500, 503}

RECURSIVE SeqsUpTo(_, _)
SeqsUpTo(S, n) ==
    IF n = 0 THEN {<<>>}
    ELSE LET shorter == SeqsUpTo(S, n - 1)
         IN  shorter \cup {Append(q, x) : q \in shorter, x \in S}

NoBody == [ctype_json |-> TRUE, json_ok |-> TRUE, has_options |-> FALSE,
           options |-> <<>>]

Bodies ==
    {[ctype_json |-> FALSE, json_ok |-> TRUE, has_options |-> FALSE,
      options |-> <<>>],
     [ctype_json |-> TRUE, json_ok |-> FALSE, has_options |-> FALSE,
      options |-> <<>>],
     NoBody}
    \cup {[ctype_json |-> TRUE, json_ok |-> TRUE, has_options |-> TRUE,
           options |-> o] : o \in SeqsUpTo(ListCosts, MaxOptions)}

HttpResponse(status, body) ==
    [transport |-> "ok", status |-> status, ctype_json |-> body.ctype_json,
     json_ok |-> body.json_ok, has_options |-> body.has_options,
     options |-> body.options]

TransportFailure(exc) ==
    [transport |-> exc, status |-> 0, ctype_json |-> TRUE, json_ok |-> TRUE,
     has_options |-> FALSE, options |-> <<>>]

Responses ==
    {HttpResponse(st, b) : st \in Statuses, b \in Bodies}
    \cup {TransportFailure(e) :
            e \in {"ClientConnectionError", "ClientPayloadError",
                   "TimeoutError"}}

\* Python exception classes: the bases of a class, itself included
Bases(cls) ==
    CASE cls = "ClientConnectionError" ->
            {"ClientConnectionError", "ClientError", "Exception"}
      [] cls = "ClientResponseError" ->
            {"ClientResponseError", "ClientError", "Exception"}
      [] cls = "ContentTypeError" ->
            {"ContentTypeError", "ClientResponseError", "ClientError",
             "Exception"}
      [] cls = "ClientPayloadError" ->
            {"ClientPayloadError", "ClientError", "Exception"}
      [] cls = "ValueError" -> {"ValueError", "Exception"}
      [] cls = "TimeoutError" -> {"TimeoutError", "Exception"}
      [] cls = "KeyError" -> {"KeyError", "Exception"}
      [] cls = "TypeError" -> {"TypeError", "Exception"}
      [] OTHER -> {cls}

isinstance(exc, base) == base \in Bases(exc.cls)

NoCost == [some |-> FALSE, val |-> 0]
Cost(c) == [some |-> TRUE, val |-> c]
NoError == [kind |-> "None", status |-> 0]
Error(kind) == [kind |-> kind, status |-> 0]
HttpError(kind, status) == [kind |-> kind, status |-> status]

\* what the try block does: return a tuple, or raise
Return(ad_id, cost, error) ==
    [raised |-> "None", ad_id |-> ad_id, cost |-> cost, error |-> error]
Raise(cls, status) == [cls |-> cls, status |-> status]
Raised(exc) == [ok |-> FALSE, exc |-> exc, cost |-> 0]
Value(c) == [ok |-> TRUE, exc |-> Raise("None", 0), cost |-> c]

DigitValue(c) ==
    CASE c = "0" -> 0 [] c = "1" -> 1 [] c = "2" -> 2 [] c = "3" -> 3
      [] c = "4" -> 4 [] c = "5" -> 5 [] c = "6" -> 6 [] c = "7" -> 7
      [] c = "8" -> 8 [] c = "9" -> 9

RECURSIVE Decimal(_)
Decimal(s) ==
    IF s = <<>> THEN 0
    ELSE 10 * Decimal(SubSeq(s, 1, Len(s) - 1)) + DigitValue(s[Len(s)])

\* float(x) on a JSON value; strings are decimal digits, letters or blanks
py_float(x) ==
    CASE x.t = "num" -> Value(x.n)
      [] x.t = "str" ->
            LET body == strip(x.s)
            IN  IF body # <<>> /\ \A i \in 1..Len(body) : body[i] \in Digits
                THEN Value(Decimal(body))
                ELSE Raised(Raise("ValueError", 0))
      [] x.t = "null" -> Raised(Raise("TypeError", 0))

\* line 30 with the wrong element: data["options"][1]
selected_option_second(options) == options[2]

\* line 30: data["options"][2]
selected_option(options) == options[3]

\* line 29: "options" in data and len(data["options"]) > 2
enough_options(data) == data.has_options /\ Len(data.options) > 2

\* line 30: float(data["options"][2]["list_cost"])
list_cost_of(data) ==
    LET option == selected_option(data.options)
    IN  IF option.t = "absent" THEN Raised(Raise("KeyError", 0))
        ELSE py_float(option)

\* line 27: response.raise_for_status() raises from status 400 on
raise_for_status(status) == status >= 400

\* the two ways the try block of lines 26-31 ends
Returns(cost, error) ==
    [ok |-> TRUE, cost |-> cost, error |-> error, exc |-> Raise("None", 0)]
Throws(exc) == [ok |-> FALSE, cost |-> NoCost, error |-> NoError, exc |-> exc]

\* lines 26-31: the try block
try_block(response) ==
    \* line 26: session.get, under ClientTimeout(total=10)
    IF response.transport # "ok"
    THEN Throws(Raise(response.transport, 0))
    \* line 27
    ELSE IF raise_for_status(response.status)
    THEN Throws(Raise("ClientResponseError", response.status))
    \* line 28: json() checks the Content-Type before it decodes the body,
    \* and its ContentTypeError is a ClientResponseError carrying the status
    ELSE IF ~response.ctype_json
    THEN Throws(Raise("ContentTypeError", response.status))
    ELSE IF ~response.json_ok
    THEN Throws(Raise("ValueError", 0))
    \* lines 29-31
    ELSE IF enough_options(response)
    THEN LET c == list_cost_of(response)
         IN  IF c.ok THEN Returns(Cost(c.cost), NoError) ELSE Throws(c.exc)
    ELSE Returns(NoCost, Error("No shipping options available"))

\* lines 34-42: the branch of aiohttp.ClientResponseError
on_response_error(ad_id, status) ==
    IF status = 500
    THEN Return(ad_id, NoCost, HttpError("Server error (500)", status))
    ELSE IF status = 404
    THEN Return(ad_id, NoCost, HttpError("Item not found (404)", status))
    ELSE IF status = 429
    THEN Return(ad_id, NoCost, HttpError("Too many requests (429)", status))
    ELSE Return(ad_id, NoCost, HttpError("Unexpected HTTP error", status))

\* lines 32-46 without the catch-all of lines 47-48
except_clauses_no_catch_all(ad_id, exc) ==
    IF isinstance(exc, "ClientConnectionError")
    THEN Return(ad_id, NoCost, Error("Could not connect to the server"))
    ELSE IF isinstance(exc, "ClientResponseError")
    THEN on_response_error(ad_id, exc.status)
    ELSE IF isinstance(exc, "ClientError")
    THEN Return(ad_id, NoCost, Error("Client error"))
    ELSE IF isinstance(exc, "ValueError")
    THEN Return(ad_id, NoCost, Error("Invalid response"))
    ELSE [raised |-> exc.cls, ad_id |-> ad_id, cost |-> NoCost,
          error |-> NoError]

\* lines 32-48: the except clauses, tried in order
except_clauses(ad_id, exc) ==
    IF isinstance(exc, "ClientConnectionError")
    THEN Return(ad_id, NoCost, Error("Could not connect to the server"))
    ELSE IF isinstance(exc, "ClientResponseError")
    THEN on_response_error(ad_id, exc.status)
    ELSE IF isinstance(exc, "ClientError")
    THEN Return(ad_id, NoCost, Error("Client error"))
    ELSE IF isinstance(exc, "ValueError")
    THEN Return(ad_id, NoCost, Error("Invalid response"))
    ELSE IF isinstance(exc, "Exception")
    THEN Return(ad_id, NoCost, Error("Unexpected error"))
    ELSE [raised |-> exc.cls, ad_id |-> ad_id, cost |-> NoCost,
          error |-> NoError]

fetch_shipping_cost(ad_id, response) ==
    LET t == try_block(response)
    IN  IF t.ok THEN Return(ad_id, t.cost, t.error)
        ELSE except_clauses(ad_id, t.exc)

\* the identifier of the single call
FetchAdId == <<"M", "L", "B", "1">>

FetchIdle ==
    /\ f_pc = "idle"
    /\ f_resp = TransportFailure("None")
    /\ f_out = Return(<<>>, NoCost, NoError)

InitFetch ==
    /\ f_pc = "call"
    /\ f_resp \in Responses
    /\ f_out = Return(<<>>, NoCost, NoError)

\* await fetch_shipping_cost(session, ad_id, zip_code)
Fetch ==
    /\ f_pc = "call"
    /\ f_out' = fetch_shipping_cost(FetchAdId, f_resp)
    /\ f_pc' = "returned"
    /\ UNCHANGED f_resp

-----------------------------------------------------------------------------
(* process_ad_ids, lines 50-77.                                            *)

IsSeparator(c) == c \in {",", "\n"}

\* index of the first separator of s from position i on, 0 if none
RECURSIVE first_separator(_, _)
first_separator(s, i) ==
    IF i > Len(s) THEN 0
    ELSE IF IsSeparator(s[i]) THEN i
    ELSE first_separator(s, i + 1)

\* re.split(r"[,\n]", s)
RECURSIVE re_split(_)
re_split(s) ==
    LET i == first_separator(s, 1)
    IN  IF i = 0 THEN <<s>>
        ELSE <<SubSeq(s, 1, i - 1)>> \o re_split(SubSeq(s, i + 1, Len(s)))

\* [id.strip() for id in tokens if id.strip()]
RECURSIVE stripped_non_empty(_)
stripped_non_empty(tokens) ==
    IF tokens = <<>> THEN <<>>
    ELSE LET t == strip(Head(tokens))
         IN  (IF t # <<>> THEN <<t>> ELSE <<>>)
             \o stripped_non_empty(Tail(tokens))

\* line 52 without dict.fromkeys: list(ids)
keep_duplicates(ids) == ids

\* line 52: list(dict.fromkeys(ids)), the first occurrence of each key
RECURSIVE dict_fromkeys(_)
dict_fromkeys(ids) ==
    IF ids = <<>> THEN <<>>
    ELSE LET front == dict_fromkeys(SubSeq(ids, 1, Len(ids) - 1))
             last == ids[Len(ids)]
         IN  IF last \in Range(front) THEN front ELSE Append(front, last)

\* line 52
id_list_of(text) == dict_fromkeys(stripped_non_empty(re_split(text)))

\* line 56
normalize_all(id_list) ==
    [i \in 1..Len(id_list) |-> <<id_list[i], normalize_ad_id(id_list[i])>>]

IsValidPair(pair) == Truthy(pair[2])
IsInvalidPair(pair) == ~Truthy(pair[2])

\* line 57
valid_ids_of(pairs) == SelectSeq(pairs, IsValidPair)
\* line 58
invalid_ids_of(pairs) == SelectSeq(pairs, IsInvalidPair)

\* line 61 with a fetch for every token, normalized or not
fetch_targets_all(pairs) == pairs

\* line 61: one fetch_shipping_cost(...) for each pair of valid_ids
fetch_targets(pairs) == valid_ids_of(pairs)

NoResult == Return(<<>>, NoCost, NoError)

\* line 61: the coroutines, none of them started
new_tasks(pairs) ==
    LET targets == fetch_targets(pairs)
    IN  [i \in 1..Len(targets) |->
            [ad_id |-> targets[i][2].val, state |-> "pending",
             result |-> NoResult]]

\* line 62 resuming as soon as one task is done
gather_done_first_completed(ts) ==
    ts = <<>> \/ \E i \in 1..Len(ts) : ts[i].state = "settled"

\* line 62: await asyncio.gather(*tasks) resumes when every task is done,
\* or at once when one of them raises
gather_done(ts) ==
    \/ \A i \in 1..Len(ts) : ts[i].state = "settled"
    \/ \E i \in 1..Len(ts) :
            ts[i].state = "settled" /\ ts[i].result.raised # "None"

IsSettled(t) == t.state = "settled"

\* line 62: the results, in the order of the tasks
results_of(ts) ==
    LET settled == SelectSeq(ts, IsSettled)
    IN  [i \in 1..Len(settled) |-> settled[i].result]

\* line 64: a later tuple with the same ad_id replaces an earlier one
dict_of(results) ==
    [id \in {results[i].ad_id : i \in 1..Len(results)} |->
        LET last == CHOOSE i \in 1..Len(results) :
                        /\ results[i].ad_id = id
                        /\ \A j \in (i + 1)..Len(results) :
                                results[j].ad_id # id
        IN  [cost |-> results[last].cost, error |-> results[last].error]]

\* line 68: result_dict.get(norm_id, (None, "Unknown error"))
dict_get(d, key) ==
    IF key \in DOMAIN d THEN d[key]
    ELSE [cost |-> NoCost, error |-> Error("Unknown error")]

\* line 66 walking the two partitions one after the other
emit_order_valid_first(pairs) == valid_ids_of(pairs) \o invalid_ids_of(pairs)

\* line 66: for raw_id, norm_id in normalized_ids
emit_order(pairs) == pairs

\* lines 70, 72, 75: the line inserted for one pair
line_for(pair, d) ==
    IF Truthy(pair[2])
    THEN LET r == dict_get(d, pair[2].val)
         IN  IF r.cost.some
             THEN [kind |-> "cost", id |-> pair[2].val, cost |-> r.cost.val]
             ELSE [kind |-> "failed", id |-> pair[2].val, cost |-> 0]
    ELSE [kind |-> "skipping", id |-> pair[1], cost |-> 0]

\* lines 73, 76: the message box shown for one pair, if any
dialog_for(pair, d) ==
    IF Truthy(pair[2])
    THEN LET r == dict_get(d, pair[2].val)
         IN  IF r.cost.some THEN <<>>
             ELSE <<[box |-> "showerror", id |-> pair[2].val,
                     error |-> r.error]>>
    ELSE <<[box |-> "showwarning", id |-> pair[1],
            error |-> Error("Invalid ad ID")]>>

(* The inputs of a batch: pieces joined by commas and newlines.            *)
Pieces ==
    {<<"M", "L", "B", "1", "2", "3">>,
     <<"1", "2", "3">>,
     <<"a", "b", "c", "1", "2", "3">>,
     <<" ", "M", "L", "B", "2">>,
     <<"B", "1">>,
     <<>>}

\* the separator of the i-th gap: commas, newlines, or one after the other
SeparatorStyles == {"commas", "newlines", "mixed"}
Separator(style, i) ==
    CASE style = "commas" -> ","
      [] style = "newlines" -> "\n"
      [] style = "mixed" -> IF i % 2 = 1 THEN "," ELSE "\n"

RECURSIVE Joined(_, _)
Joined(n, style) ==
    IF n = 1 THEN Pieces
    ELSE {b \o <<Separator(style, n - 1)>> \o p :
            b \in Joined(n - 1, style), p \in Pieces}

BatchInputs ==
    UNION {Joined(n, style) : n \in 1..MaxTokens, style \in SeparatorStyles}

\* the responses the server gives within a batch
BatchResponses ==
    {HttpResponse(200, [NoBody EXCEPT !.has_options = TRUE,
                        !.options = <<Num(7), Num(7), Num(15)>>]),
     TransportFailure("TimeoutError")}

EmptyDict == [id \in {} |-> [cost |-> NoCost, error |-> NoError]]

BatchIdle ==
    /\ pc = "idle" /\ ad_ids = <<>> /\ normalized_ids = <<>> /\ tasks = <<>>
    /\ first_done = 0 /\ result_dict = EmptyDict /\ k = 0
    /\ result_text = <<>> /\ dialogs = <<>>

InitBatch ==
    /\ pc = "start"
    /\ ad_ids \in BatchInputs
    /\ normalized_ids = <<>>
    /\ tasks = <<>>
    /\ first_done = 0
    /\ result_dict = EmptyDict
    /\ k = 0
    /\ result_text = <<>>
    /\ dialogs = <<>>

\* lines 52-62: split, dedup, normalize, hand the coroutines to gather
Launch ==
    /\ pc = "start"
    /\ LET id_list == id_list_of(ad_ids)
       IN  IF id_list = <<>>
           THEN /\ pc' = "done"
                /\ UNCHANGED <<normalized_ids, tasks>>
           ELSE /\ normalized_ids' = normalize_all(id_list)
                /\ tasks' = new_tasks(normalize_all(id_list))
                /\ pc' = "gather"
    /\ UNCHANGED <<ad_ids, first_done, result_dict, k, result_text, dialogs>>

\* lines 20-48 run by the event loop: task i gets its response and returns
FetchSettle(i, response) ==
    /\ pc = "gather"
    /\ tasks[i].state = "pending"
    /\ tasks' = [tasks EXCEPT
                    ![i].state = "settled",
                    ![i].result = fetch_shipping_cost(tasks[i].ad_id,
                                                      response)]
    /\ first_done' = IF first_done = 0 THEN i ELSE first_done
    /\ UNCHANGED <<pc, ad_ids, normalized_ids, result_dict, k, result_text,
                   dialogs>>

\* lines 62-64: gather resumes; an exception of a task leaves the function
GatherReturn ==
    /\ pc = "gather"
    /\ gather_done(tasks)
    /\ IF \E i \in 1..Len(tasks) : tasks[i].result.raised # "None"
       THEN pc' = "raised" /\ UNCHANGED <<result_dict, k>>
       ELSE /\ result_dict' = dict_of(results_of(tasks))
            /\ k' = 1
            /\ pc' = "emit"
    /\ UNCHANGED <<ad_ids, normalized_ids, tasks, first_done, result_text,
                   dialogs>>

\* lines 66-77: one turn of the loop
Emit ==
    /\ pc = "emit"
    /\ LET order == emit_order(normalized_ids)
       IN  /\ result_text' = Append(result_text, line_for(order[k],
                                                          result_dict))
           /\ dialogs' = dialogs \o dialog_for(order[k], result_dict)
           /\ k' = k + 1
           /\ pc' = IF k = Len(order) THEN "done" ELSE "emit"
    /\ UNCHANGED <<ad_ids, normalized_ids, tasks, first_done, result_dict>>

-----------------------------------------------------------------------------
(* Specifications.                                                         *)

Init == NormIdle /\ FetchIdle /\ InitBatch

Next ==
    \/ Launch /\ UNCHANGED <<normVars, fetchVars>>
    \/ \E i \in 1..Len(tasks), response \in BatchResponses :
            FetchSettle(i, response) /\ UNCHANGED <<normVars, fetchVars>>
    \/ GatherReturn /\ UNCHANGED <<normVars, fetchVars>>
    \/ Emit /\ UNCHANGED <<normVars, fetchVars>>

Spec == Init /\ [][Next]_vars

InitN == InitNormalize /\ FetchIdle /\ BatchIdle

NextN ==
    \/ NormalizeOnce /\ UNCHANGED <<fetchVars, batchVars>>
    \/ NormalizeAgain /\ UNCHANGED <<fetchVars, batchVars>>

SpecNormalize == InitN /\ [][NextN]_vars

InitF == NormIdle /\ InitFetch /\ BatchIdle

NextF == Fetch /\ UNCHANGED <<normVars, batchVars>>

SpecFetch == InitF /\ [][NextF]_vars

-----------------------------------------------------------------------------
(* Properties.                                                             *)

\* the trimmed non-empty tokens of the input, duplicates included
InputTokens == stripped_non_empty(re_split(ad_ids))

\* the elements of ts, each at its first occurrence only
FirstOccurrences(ts) ==
    LET IsFirst(i) == \A j \in 1..(i - 1) : ts[j] # ts[i]
        Flagged == [i \in 1..Len(ts) |-> <<ts[i], IsFirst(i)>>]
        Firsts == SelectSeq(Flagged, LAMBDA e : e[2])
    IN  [n \in 1..Len(Firsts) |-> Firsts[n][1]]

DistinctTokens == FirstOccurrences(InputTokens)

IsCanonical(s) ==
    /\ Len(s) >= 4
    /\ SubSeq(s, 1, 3) = MLB
    /\ \A i \in 4..Len(s) : s[i] \in Digits

\* the line a token must get: its canonical id with a cost or a failure,
\* or the token itself marked invalid
LineIsFor(line, token) ==
    LET norm == normalize_ad_id(token)
    IN  IF norm.some
        THEN line.kind \in {"cost", "failed"} /\ line.id = norm.val
        ELSE line.kind = "skipping" /\ line.id = token

AllSettled == \A i \in 1..Len(tasks) : tasks[i].state = "settled"

\* C1: whatever fetch completes first, the n-th line emitted is the line of
\* the n-th distinct trimmed non-empty token of the input, invalid tokens at
\* their own positions, and a finished batch has emitted all of them.
C1_OutputInInputOrder ==
    LET distinct == DistinctTokens
    IN  /\ Len(result_text) <= Len(distinct)
        /\ \A n \in 1..Len(result_text) :
                LineIsFor(result_text[n], distinct[n])
        /\ (pc = "done" => Len(result_text) = Len(distinct))

\* a finished batch "MLB123 <invalid> MLB2 ..." whose last fetch completed
\* first
C1_Witness ==
    /\ pc = "done"
    /\ Len(tasks) >= 2
    /\ first_done = Len(tasks)
    /\ tasks[1].ad_id # tasks[2].ad_id
    /\ \E n \in 2..Len(result_text) :
            /\ result_text[n].kind # "skipping"
            /\ result_text[n - 1].kind = "skipping"

\* C2: a finished batch has emitted as many lines as the input has distinct
\* trimmed non-empty tokens: a repeated token gets one line.
C2_OneEntryPerDistinctToken ==
    pc = "done" =>
        LET tokens == Range(InputTokens)
        IN  /\ Len(result_text) = Cardinality(tokens)
            /\ \A t \in tokens :
                    \E n \in 1..Len(result_text) :
                        LineIsFor(result_text[n], t)

\* a finished batch whose input repeats a token and holds another one
C2_Witness ==
    /\ pc = "done"
    /\ Len(InputTokens) > Cardinality(Range(InputTokens))
    /\ Len(result_text) = 2

\* C3: nothing is emitted (no line, no message box) while a fetch of the
\* batch is still pending.
C3_NoOutputBeforeBarrier ==
    (result_text # <<>> \/ dialogs # <<>>) => AllSettled

\* the first line of a batch of two or more fetches is out
C3_Witness ==
    /\ Len(result_text) = 1
    /\ Len(tasks) >= 2
    /\ first_done = 2

\* each distinct token with what normalize_ad_id makes of it
Normalized ==
    LET distinct == DistinctTokens
    IN  [n \in 1..Len(distinct) |->
            [token |-> distinct[n], norm |-> normalize_ad_id(distinct[n])]]

\* the tokens normalize_ad_id accepts, in order, and those it rejects
Accepted(normalized) == SelectSeq(normalized, LAMBDA e : e.norm.some)
Rejected(normalized) ==
    {e.token : e \in {x \in Range(normalized) : ~x.norm.some}}

\* C4: the fetches launched are exactly those of the tokens normalize_ad_id
\* accepts, each for the canonical id of its token; a token it rejects gets
\* no fetch, and a finished batch holds its invalid-input line.
C4_NoFetchForInvalidToken ==
    /\ pc # "start" =>
        LET valid == Accepted(Normalized)
        IN  /\ Len(tasks) = Len(valid)
            /\ \A i \in 1..Len(tasks) :
                    /\ tasks[i].ad_id = valid[i].norm.val
                    /\ IsCanonical(tasks[i].ad_id)
    /\ pc = "done" =>
        \A t \in Rejected(Normalized) :
            \E n \in 1..Len(result_text) :
                result_text[n] = [kind |-> "skipping", id |-> t, cost |-> 0]

\* a finished batch with a rejected token and a fetched one
C4_Witness ==
    /\ pc = "done"
    /\ Rejected(Normalized) # {}
    /\ Len(tasks) >= 1
    /\ \E n \in 1..Len(result_text) : result_text[n].kind = "skipping"

IsFailure(result) == ~result.cost.some /\ result.error.kind # "None"
IsSuccess(result) == result.cost.some /\ result.error.kind = "None"

\* C5: no exception leaves a fetch or the barrier; a settled fetch returned
\* a success or a failure for its own id; once the barrier is passed every
\* fetch has settled (none was dropped because a sibling failed); and a
\* finished batch holds a line for every token that normalized, a failure
\* line only for an id one of whose fetches failed.
C5_FailIndependent ==
    /\ pc # "raised"
    /\ \A i \in 1..Len(tasks) :
            tasks[i].state = "settled" =>
                /\ tasks[i].result.raised = "None"
                /\ tasks[i].result.ad_id = tasks[i].ad_id
                /\ IsFailure(tasks[i].result) # IsSuccess(tasks[i].result)
    /\ pc \in {"emit", "done"} => AllSettled
    /\ pc = "done" =>
        /\ \A e \in Range(Accepted(Normalized)) :
                \E n \in 1..Len(result_text) :
                    /\ result_text[n].kind \in {"cost", "failed"}
                    /\ result_text[n].id = e.norm.val
        /\ \A n \in 1..Len(result_text) :
                /\ result_text[n].kind = "failed" =>
                        \E i \in 1..Len(tasks) :
                            /\ tasks[i].ad_id = result_text[n].id
                            /\ IsFailure(tasks[i].result)
                /\ result_text[n].kind = "cost" =>
                        \E i \in 1..Len(tasks) :
                            /\ tasks[i].ad_id = result_text[n].id
                            /\ IsSuccess(tasks[i].result)

\* a finished batch whose first completed fetch failed while a fetch of
\* another id succeeded, both with their lines
C5_Witness ==
    /\ pc = "done"
    /\ first_done # 0
    /\ IsFailure(tasks[first_done].result)
    /\ \E j \in 1..Len(tasks) :
            /\ IsSuccess(tasks[j].result)
            /\ tasks[j].ad_id # tasks[first_done].ad_id
    /\ \E n, m \in 1..Len(result_text) :
            result_text[n].kind = "failed" /\ result_text[m].kind = "cost"

\* C6: no canonical id is handed to the Fetcher twice within a batch.
C6_OneFetchPerCanonicalId ==
    \A i, j \in 1..Len(tasks) :
        i # j => tasks[i].ad_id # tasks[j].ad_id

abc123 == <<"a", "b", "c", "1", "2", "3">>
MLB123 == <<"M", "L", "B", "1", "2", "3">>

PositionIn(ts, t) == CHOOSE n \in 1..Len(ts) : ts[n] = t
RankIn(es, t) == CHOOSE n \in 1..Len(es) : es[n].token = t

\* C7 as stated: a batch holding the token abc123 launches no fetch for it
\* and ends with its invalid-input line.
C7_abc123Rejected ==
    (pc = "done" /\ abc123 \in Range(InputTokens)) =>
        /\ Len(tasks) = Len(SelectSeq(Accepted(Normalized),
                                      LAMBDA e : e.token # abc123))
        /\ \E n \in 1..Len(result_text) :
                result_text[n] = [kind |-> "skipping", id |-> abc123,
                                  cost |-> 0]

\* C7 amended: the token abc123 loses its lower-case letters and becomes
\* MLB123: a batch holding it launches a fetch of MLB123 at the token's rank
\* among the accepted tokens, never emits an invalid-input line for it, and
\* ends with a cost or failure line of MLB123 at the token's position.
C7_abc123Fetched ==
    (pc # "start" /\ abc123 \in Range(InputTokens)) =>
        /\ <<abc123, Some(MLB123)>> \in Range(normalized_ids)
        /\ LET valid == Accepted(Normalized)
           IN  /\ Len(tasks) = Len(valid)
               /\ \E n \in 1..Len(valid) : valid[n].token = abc123
               /\ tasks[RankIn(valid, abc123)].ad_id = MLB123
        /\ \A n \in 1..Len(result_text) :
                ~(result_text[n].kind = "skipping"
                  /\ result_text[n].id = abc123)
        /\ pc = "done" =>
                LET n == PositionIn(DistinctTokens, abc123)
                IN  /\ result_text[n].kind \in {"cost", "failed"}
                    /\ result_text[n].id = MLB123

\* a finished batch of the token abc123 and a rejected token
C7_Witness ==
    /\ pc = "done"
    /\ abc123 \in Range(InputTokens)
    /\ Rejected(Normalized) # {}
    /\ MLB123 \notin Range(InputTokens)

Is2xx(status) == status >= 200 /\ status <= 299

\* C8: a response whose status is not 2xx is classified by its status
\* alone (500, 404, 429, any other: "unexpected HTTP error" with the
\* status), and a 2xx response never is an "unexpected HTTP error".
C8_ClassifiedByStatus ==
    (f_pc = "returned" /\ f_resp.transport = "ok") =>
        LET st == f_resp.status
            e == f_out.error
        IN  /\ ~Is2xx(st) =>
                /\ ~f_out.cost.some
                /\ e.status = st
                /\ e.kind = CASE st = 500 -> "Server error (500)"
                              [] st = 404 -> "Item not found (404)"
                              [] st = 429 -> "Too many requests (429)"
                              [] OTHER -> "Unexpected HTTP error"
            /\ Is2xx(st) => e.kind # "Unexpected HTTP error"

\* a 2xx response whose body parsed
Parsed2xx ==
    /\ f_resp.transport = "ok"
    /\ Is2xx(f_resp.status)
    /\ f_resp.ctype_json
    /\ f_resp.json_ok

MoreThanTwoOptions == f_resp.has_options /\ Len(f_resp.options) > 2

\* whether a list_cost has a numeric value, and that value
IsNumeric(x) ==
    \/ x.t = "num"
    \/ /\ x.t = "str"
       /\ strip(x.s) # <<>>
       /\ \A i \in 1..Len(strip(x.s)) : strip(x.s)[i] \in Digits
NumericValue(x) == IF x.t = "num" THEN x.n ELSE Decimal(strip(x.s))

\* C9 as stated: on a parsed 2xx response the call succeeds exactly when
\* options has more than 2 elements, with the cost of the element at index
\* 2, and otherwise fails with "no shipping options available".
C9_SuccessIffMoreThanTwo ==
    (f_pc = "returned" /\ Parsed2xx) =>
        /\ f_out.cost.some <=> MoreThanTwoOptions
        /\ f_out.cost.some =>
                /\ IsNumeric(f_resp.options[3])
                /\ f_out.cost.val = NumericValue(f_resp.options[3])
        /\ ~MoreThanTwoOptions =>
                f_out.error.kind = "No shipping options available"

\* C9 amended: on a parsed 2xx response the call succeeds exactly when
\* options has more than 2 elements and the list_cost of the element at
\* index 2 has a numeric value, which is the cost; with more than 2
\* elements and a list_cost that is a non-numeric string it fails with
\* "invalid response", with one that is null or absent with "unexpected
\* error"; with 2 elements or fewer, or no options, it fails with "no
\* shipping options available".
C9_SuccessIffThirdCostNumeric ==
    (f_pc = "returned" /\ Parsed2xx) =>
        /\ f_out.raised = "None"
        /\ f_out.cost.some <=>
                (MoreThanTwoOptions /\ IsNumeric(f_resp.options[3]))
        /\ f_out.cost.some =>
                /\ f_out.cost.val = NumericValue(f_resp.options[3])
                /\ f_out.error = NoError
        /\ (MoreThanTwoOptions /\ ~IsNumeric(f_resp.options[3])) =>
                f_out.error.kind =
                    IF f_resp.options[3].t = "str" THEN "Invalid response"
                    ELSE "Unexpected error"
        /\ ~MoreThanTwoOptions =>
                f_out.error.kind = "No shipping options available"

\* a success on three options whose third cost differs from the second
C9_Witness ==
    /\ f_pc = "returned"
    /\ Parsed2xx
    /\ Len(f_resp.options) = 3
    /\ f_out.cost.some
    /\ f_resp.options[2] = Num(7)
    /\ f_resp.options[3] = Str(<<"1", "5">>)
    /\ f_out.cost.val = 15

\* C10: normalizing an accepted result again gives the same result, and an
\* accepted result is MLB followed by one or more decimal digits.
C10_NormalizeIdempotent ==
    /\ n_pc = "twice" => n_out2 = n_out1
    /\ (n_pc # "raw" /\ n_out1.some) => IsCanonical(n_out1.val)

\* a raw string with noise, normalized twice
C10_Witness ==
    /\ n_pc = "twice"
    /\ n_out1.some
    /\ n_raw # n_out1.val
    /\ ~startswith(n_raw, MLB)

====
